---- MODULE Spec2Model ----
(***************************************************************************)
(* Model of the place discovery aggregation of the nearbyspots-qr server:  *)
(* the POST /api/search-nearby handler, the provider adapter               *)
(* searchNearbyPlaces, calculateDistance and the manual recommendations    *)
(* overlay.                                                                *)
(*                                                                         *)
(* Representation choices.                                                 *)
(*  - Coordinates are integers in units of 1e-4 degree.                    *)
(*  - calculateDistance returns tenths of a metre (fixed point); the       *)
(*    haversine terms are evaluated with the small-angle expansions of     *)
(*    sin, cos and atan2, and saturate outside a window of DistWindow      *)
(*    coordinate units.                                                    *)
(*  - A JavaScript string is a sequence of tokens: a word, a run of        *)
(*    digits, the blank " " or the comma ",".                              *)
(*  - Ratings are integers in tenths (45 is 4.5).                          *)
(***************************************************************************)
EXTENDS Integers, Sequences, FiniteSets, TLC

\* ------------------------------------------------------------------------
\* JavaScript values

\* The value of a request field that is absent from the body.
undefined == -999999

\* An optional number of a provider record that the provider omitted.
NoNumber == -1

\* Variant of OrZero that passes the field through as the provider gave it.
OrZero_AsGiven(x) == x

\* x || 0 on an optional number.
OrZero(x) == IF x = NoNumber \/ x = 0 THEN 0 ELSE x

\* !x on a request number: undefined and 0 are falsy.
Falsy(x) == x = undefined \/ x = 0

Min(a, b) == IF a <= b THEN a ELSE b

Max(a, b) == IF a >= b THEN a ELSE b

Abs(x) == IF x < 0 THEN -x ELSE x

\* Fixed-point division rounding toward zero, so that scaling commutes with
\* negation as it does in floating point.
Quot(a, b) == IF a < 0 THEN -((-a) \div b) ELSE a \div b

\* ------------------------------------------------------------------------
\* Strings as token sequences

Blank == " "

Comma == ","

DigitTokens == {"12", "36"}

RECURSIVE TrimLeft(_)
TrimLeft(s) == IF s # <<>> /\ Head(s) = Blank THEN TrimLeft(Tail(s)) ELSE s

RECURSIVE TrimRight(_)
TrimRight(s) ==
  IF s # <<>> /\ s[Len(s)] = Blank THEN TrimRight(SubSeq(s, 1, Len(s) - 1)) ELSE s

\* String.prototype.trim
Trim(s) == TrimRight(TrimLeft(s))

\* String.prototype.split(','): always at least one segment.
RECURSIVE SplitFrom(_, _, _)
SplitFrom(s, i, cur) ==
  IF i > Len(s) THEN <<cur>>
  ELSE IF s[i] = Comma THEN <<cur>> \o SplitFrom(s, i + 1, <<>>)
  ELSE SplitFrom(s, i + 1, Append(cur, s[i]))

Split(s) == SplitFrom(s, 1, <<>>)

\* String.prototype.includes(word), for a word that is one token.
Includes(s, word) == \E i \in 1..Len(s) : s[i] = word

\* s.match(/^\d+/)
StartsWithDigits(s) == s # <<>> /\ Head(s) \in DigitTokens

\* ------------------------------------------------------------------------
\* Geo math

\* Largest coordinate difference (1e-4 degree) the fixed-point haversine
\* evaluates; farther points get FarAway.
DistWindow == 1500

\* Tenths of a metre; larger than every radius the server accepts.
FarAway == 200000000

RECURSIVE SqrtSearch(_, _, _)
SqrtSearch(n, lo, hi) ==
  IF lo >= hi THEN lo
  ELSE LET mid == (lo + hi + 1) \div 2
       IN IF mid * mid <= n THEN SqrtSearch(n, mid, hi)
          ELSE SqrtSearch(n, lo, mid - 1)

\* floor(sqrt(n)) for 0 <= n < 2^30
ISqrt(n) == SqrtSearch(n, 0, 32767)

\* x * Math.PI / 180 for a coordinate difference x in 1e-4 degree, in tenths
\* of a microradian.
ToRadians(x) == Quot(x * 17453, 1000)

\* 1000 * cos(lat * Math.PI / 180) for lat in 1e-4 degree, by the expansion
\* 1 - x^2/2 + x^4/24 with x in milliradians.
CosMilli(lat) ==
  LET x  == Quot(lat * 1745, 1000000)
      x2 == x * x
  IN 1000 - (x2 \div 2000) + (((x2 \div 1000) * (x2 \div 1000)) \div 24000)

\* Math.sin(d / 2) * Math.sin(d / 2) for d in tenths of a microradian, in
\* hundredths of a squared microradian (sin x = x inside the window).
SinHalfSq(d) == LET h == Quot(d, 2) IN h * h

\* Variant of calculateDistance that takes the cosine of the first latitude
\* twice.
calculateDistance_OneCosine(lat1, lon1, lat2, lon2) ==
  IF Abs(lat2 - lat1) > DistWindow \/ Abs(lon2 - lon1) > DistWindow
  THEN FarAway
  ELSE LET dphi == ToRadians(lat2 - lat1)
           dlam == ToRadians(lon2 - lon1)
           a    == SinHalfSq(dphi)
                   + (((CosMilli(lat1) * CosMilli(lat1)) \div 1000)
                      * (SinHalfSq(dlam) \div 100)) \div 10
           c    == 2 * ISqrt(a)
       IN (6371 * c) \div 1000

calculateDistance(lat1, lon1, lat2, lon2) ==
  IF Abs(lat2 - lat1) > DistWindow \/ Abs(lon2 - lon1) > DistWindow
  THEN FarAway
  ELSE LET dphi == ToRadians(lat2 - lat1)
           dlam == ToRadians(lon2 - lon1)
           a    == SinHalfSq(dphi)
                   + (((CosMilli(lat1) * CosMilli(lat2)) \div 1000)
                      * (SinHalfSq(dlam) \div 100)) \div 10
           \* c = 2 * atan2(sqrt(a), sqrt(1-a)) = 2 * sqrt(a) inside the
           \* window, in tenths of a microradian
           c    == 2 * ISqrt(a)
       IN (6371 * c) \div 1000

\* Math.round on a distance in tenths of a metre, giving metres.
Round(d) == (d + 5) \div 10

\* ------------------------------------------------------------------------
\* Configuration

DEFAULT_SEARCH_RADIUS == 2000

MAX_SEARCH_RADIUS == 10000

\* Object.entries(PLACE_TYPES), in insertion order.
PLACE_TYPES == <<"restaurants", "landmarks", "coffee", "culture">>

Categories == {PLACE_TYPES[i] : i \in 1..Len(PLACE_TYPES)}

\* The placeholder names of the free-text searches of each category branch,
\* in the order the branch issues them.
TextPlaceholders ==
  [restaurants |-> << <<"Unknown Restaurant">>, <<"Unknown Restaurant">> >>,
   landmarks   |-> << <<"Unknown Landmark">>, <<"Unknown Religious Site">> >>,
   coffee      |-> << <<"Unknown Coffee Shop">> >>,
   culture     |-> << <<"Unknown Cultural Site">>, <<"Unknown Venue">> >>]

\* Number of sub-queries of a category: the tag search and its text searches.
SubQueryCount(cat) == 1 + Len(TextPlaceholders[cat])

UnknownPlace == <<"Unknown Place">>

typeMap ==
  [restaurant |-> "Restaurant", tourist_attraction |-> "Landmark",
   cafe |-> "Coffee Shop", museum |-> "Museum", art_gallery |-> "Art Gallery",
   library |-> "Library", cultural_center |-> "Cultural Center",
   establishment |-> "Establishment",
   point_of_interest |-> "Point of Interest"]

\* ------------------------------------------------------------------------
\* Provider records

NoLocation == [present |-> FALSE, latitude |-> 0, longitude |-> 0]

At(lat, lng) == [present |-> TRUE, latitude |-> lat, longitude |-> lng]

\* A raw record of the provider.  An omitted string or list is <<>>, an
\* omitted number NoNumber, an omitted location NoLocation.
Raw(id, displayName, name, formattedAddress, types, location, rating, count) ==
  [id |-> id, displayName |-> displayName, name |-> name,
   formattedAddress |-> formattedAddress, types |-> types,
   location |-> location, rating |-> rating, userRatingCount |-> count]

\* The query centres of the model: the default hotel, and a point next to
\* latitude 0, longitude 0.
HotelLat == 210341

HotelLng == 1058511

\* Records the provider can return to a tag search, in provider order.
TagPool ==
  << Raw("b", <<"Giang">>, <<>>, <<"Hanoi">>, <<>>,
         At(HotelLat + 80, HotelLng), NoNumber, NoNumber),
     Raw("c", <<" ">>, <<"Bun", " ", "Cha">>, <<>>, <<"restaurant">>,
         At(HotelLat, HotelLng + 60), 45, 12),
     Raw("a", <<"Pho", " ", "Thin">>, <<>>, <<"36", " ", "Lo Duc">>, <<>>,
         At(HotelLat + 30, HotelLng), 45, 300),
     Raw("f", <<"West Lake">>, <<>>, <<>>, <<>>,
         At(HotelLat + 450, HotelLng), 50, 9),
     Raw("n", <<"Nameless Alley">>, <<>>, <<>>, <<>>,
         NoLocation, 30, 2),
     Raw("t", <<>>, <<>>, <<"Hanoi", ",", " ", "Vietnam">>, <<"restaurant">>,
         At(HotelLat - 30, HotelLng), 20, 1) >>

\* Records the provider can return to a free-text search, in provider order.
TextPool ==
  << Raw("d", <<>>, <<>>,
         <<"12", " ", "Hang Bac", ",", " ", "Old Quarter", ",", " ", "Hanoi">>,
         <<>>, At(HotelLat + 20, HotelLng + 20), 40, 7),
     Raw("a", <<"Pho", " ", "Thin">>, <<>>, <<>>, <<>>,
         At(HotelLat + 30, HotelLng), 40, 299),
     Raw("v", <<>>, <<>>, <<"Vietnam">>, <<>>,
         At(HotelLat - 20, HotelLng), NoNumber, NoNumber),
     Raw("m", <<"Mystery">>, <<>>, <<>>, <<>>,
         NoLocation, 35, 4),
     Raw("e", <<"Ca Phe">>, <<>>, <<>>, <<>>,
         At(HotelLat - 80, HotelLng), NoNumber, NoNumber) >>

\* ------------------------------------------------------------------------
\* Place name extraction and normalization

\* The name the final map of the handler gives a record, UnknownPlace when no
\* branch of its if / else-if chain assigns one.
RECURSIVE FirstAddressPart(_)
FirstAddressPart(parts) ==
  IF parts = <<>> THEN UnknownPlace
  ELSE LET trimmedPart == Trim(Head(parts))
       IN IF /\ Len(trimmedPart) > 0
             /\ ~StartsWithDigits(trimmedPart)
             /\ ~Includes(trimmedPart, "Vietnam")
             /\ ~Includes(trimmedPart, "Hanoi")
          THEN trimmedPart
          ELSE FirstAddressPart(Tail(parts))

RECURSIVE FirstTypeName(_, _)
FirstTypeName(types, location) ==
  IF types = <<>> THEN UnknownPlace
  ELSE IF Head(types) \in DOMAIN typeMap
       THEN <<typeMap[Head(types)], " ", "at", " ",
              ToString(location.latitude), ",", ToString(location.longitude)>>
       ELSE FirstTypeName(Tail(types), location)

ExtractName(place) ==
  IF Len(place.displayName) > 0 /\ Len(Trim(place.displayName)) > 0
  THEN Trim(place.displayName)
  ELSE IF Len(place.name) > 0 /\ Len(Trim(place.name)) > 0
  THEN Trim(place.name)
  ELSE IF Len(place.formattedAddress) > 0
          /\ Len(Trim(place.formattedAddress)) > 0
  THEN FirstAddressPart(Split(place.formattedAddress))
  ELSE IF Len(place.types) > 0
  THEN FirstTypeName(place.types, place.location)
  ELSE UnknownPlace

\* The name a free-text branch gives a record before the final map.
TextName(place, placeholder) ==
  IF Len(place.displayName) > 0 THEN place.displayName
  ELSE IF Len(place.name) > 0 THEN place.name
  ELSE IF Len(place.formattedAddress) > 0
  THEN LET addressParts == Split(place.formattedAddress)
       IN IF Len(addressParts) > 0 /\ Len(Trim(addressParts[1])) > 0
          THEN Trim(addressParts[1])
          ELSE placeholder
  ELSE placeholder

\* place.location || { latitude: 0, longitude: 0 }
LocationOrZero(location) == IF location.present THEN location ELSE At(0, 0)

\* The object a free-text branch builds from a raw record.  It carries
\* name/address instead of displayName/formattedAddress and no types, which
\* is what the final map then reads.  distance is in tenths of a metre.
TextPlace(place, placeholder, latitude, longitude) ==
  [id |-> place.id, displayName |-> <<>>,
   name |-> TextName(place, placeholder),
   formattedAddress |-> <<>>, types |-> <<>>,
   location |-> LocationOrZero(place.location),
   rating |-> OrZero(place.rating),
   userRatingCount |-> OrZero(place.userRatingCount),
   distance |-> calculateDistance(latitude, longitude,
                                  LocationOrZero(place.location).latitude,
                                  LocationOrZero(place.location).longitude)]

RECURSIVE SelectPlaces(_, _, _)
SelectPlaces(places, radius, placeholder) ==
  IF places = <<>> THEN <<>>
  ELSE LET place == Head(places)
           rest  == SelectPlaces(Tail(places), radius, placeholder)
       IN IF place.distance <= radius * 10 /\ place.name # placeholder
          THEN <<place>> \o rest
          ELSE rest

\* .map(...).filter(...) of a free-text branch; sub is the position of the
\* sub-query in the branch, kept with each record.
TextPlaces(places, placeholder, latitude, longitude, radius, sub) ==
  LET built == [i \in 1..Len(places) |->
                  TextPlace(places[i], placeholder, latitude, longitude)]
      kept  == SelectPlaces(built, radius, placeholder)
  IN [i \in 1..Len(kept) |->
        [id |-> kept[i].id, displayName |-> kept[i].displayName,
         name |-> kept[i].name, formattedAddress |-> kept[i].formattedAddress,
         types |-> kept[i].types, location |-> kept[i].location,
         rating |-> kept[i].rating,
         userRatingCount |-> kept[i].userRatingCount, sub |-> sub]]

\* The records of the tag search as pushed into allPlacesForCategory.
TagPlaces(places) ==
  [i \in 1..Len(places) |->
     [id |-> places[i].id, displayName |-> places[i].displayName,
      name |-> places[i].name,
      formattedAddress |-> places[i].formattedAddress,
      types |-> places[i].types, location |-> places[i].location,
      rating |-> places[i].rating,
      userRatingCount |-> places[i].userRatingCount, sub |-> 1]]

\* The object the final map returns for one element of allPlacesForCategory.
NormalizedPlace(place, latitude, longitude) ==
  [id |-> place.id,
   name |-> ExtractName(place),
   address |-> place.formattedAddress,
   location |-> place.location,
   rating |-> OrZero(place.rating),
   userRatingCount |-> OrZero(place.userRatingCount),
   distance |-> Round(calculateDistance(latitude, longitude,
                                        place.location.latitude,
                                        place.location.longitude)),
   types |-> place.types,
   sub |-> place.sub]

\* place.location.latitude on a record without location throws a TypeError.
MapThrows(places) == \E i \in 1..Len(places) : ~places[i].location.present

RECURSIVE DropUnknown(_)
DropUnknown(places) ==
  IF places = <<>> THEN <<>>
  ELSE IF Head(places).name # UnknownPlace
       THEN <<Head(places)>> \o DropUnknown(Tail(places))
       ELSE DropUnknown(Tail(places))

\* Variant of UniquePlaces without the has() test: every place is kept.
UniquePlaces_KeepAll(places, seen) == places

\* Variant of UniquePlaces that sets the Map entry unconditionally: the last
\* place of each id is kept.
UniquePlaces_LastWins(places, seen) ==
  LET last(i) == \A j \in (i + 1)..Len(places) : places[j].id # places[i].id
      RECURSIVE keep(_)
      keep(i) == IF i > Len(places) THEN <<>>
                 ELSE IF last(i) THEN <<places[i]>> \o keep(i + 1)
                 ELSE keep(i + 1)
  IN keep(1)

\* The Map keyed by place.id: the first place of each id, in insertion order.
RECURSIVE UniquePlaces(_, _)
UniquePlaces(places, seen) ==
  IF places = <<>> THEN <<>>
  ELSE IF Head(places).id \in seen
       THEN UniquePlaces(Tail(places), seen)
       ELSE <<Head(places)>>
            \o UniquePlaces(Tail(places), seen \cup {Head(places).id})

\* Variant of ComparePlaces that ignores the rating.
ComparePlaces_DistanceOnly(a, b) == a.distance - b.distance

\* The comparator of results[category].sort.
ComparePlaces(a, b) ==
  IF a.rating # b.rating THEN b.rating - a.rating
  ELSE a.distance - b.distance

\* Variant of InsertPlace that puts an element before the elements it
\* compares equal to.
RECURSIVE InsertPlace_BeforeEquals(_, _)
InsertPlace_BeforeEquals(sorted, place) ==
  IF sorted = <<>> THEN <<place>>
  ELSE IF ComparePlaces(sorted[Len(sorted)], place) < 0
       THEN Append(sorted, place)
       ELSE Append(InsertPlace_BeforeEquals(
                     SubSeq(sorted, 1, Len(sorted) - 1), place),
                   sorted[Len(sorted)])

\* Array.prototype.sort is stable: an element goes after every element that
\* does not compare greater than it.
RECURSIVE InsertPlace(_, _)
InsertPlace(sorted, place) ==
  IF sorted = <<>> THEN <<place>>
  ELSE IF ComparePlaces(sorted[Len(sorted)], place) <= 0
       THEN Append(sorted, place)
       ELSE Append(InsertPlace(SubSeq(sorted, 1, Len(sorted) - 1), place),
                   sorted[Len(sorted)])

RECURSIVE SortPlaces(_)
SortPlaces(places) ==
  IF places = <<>> THEN <<>>
  ELSE InsertPlace(SortPlaces(SubSeq(places, 1, Len(places) - 1)),
                   places[Len(places)])

\* results[category] as the try block of the category loop computes it from
\* allPlacesForCategory, when the map does not throw.
CategoryResult(places, latitude, longitude) ==
  SortPlaces(UniquePlaces(DropUnknown(
    [i \in 1..Len(places) |->
       NormalizedPlace(places[i], latitude, longitude)]), {}))

\* ------------------------------------------------------------------------
\* The environment: requests, provider answers, curated snapshots

\* Most records in one answer to a tag search and to a free-text search.
MaxTagResults == 3

MaxTextResults == 2

\* The answers of at most n records: the runs of consecutive records of pool.
Answers(pool, n) ==
  {SubSeq(pool, run[1], run[1] + run[2] - 1) :
     run \in {r \in (1..Len(pool)) \X (0..n) : r[1] + r[2] - 1 <= Len(pool)}}
\* HTTP status of a failed provider call: permission denied, invalid
\* request, rate limited; 0 is a network error or timeout without response.
ErrorStatuses == {403, 400, 429, 0}

Failure(status) == [status |-> status, places |-> <<>>]

Success(places) == [status |-> 200, places |-> places]

Failures == {Failure(st) : st \in ErrorStatuses}

\* Answers to the sub-queries of the category that has places around the
\* centre, and to those of the other categories.
TagResponses(rich) ==
  IF rich THEN Failures \cup {Success(a) : a \in Answers(TagPool, MaxTagResults)}
  ELSE {Failure(429), Success(<<>>)}

TextResponses(rich) ==
  IF rich
  THEN Failures \cup {Success(a) : a \in Answers(TextPool, MaxTextResults)}
  ELSE {Failure(429), Success(<<>>)}

\* Request bodies: latitude, longitude and radius, undefined when absent.
Req(latitude, longitude, radius) ==
  [latitude |-> latitude, longitude |-> longitude, radius |-> radius]

Requests ==
  { Req(HotelLat, HotelLng, 1000),
    Req(HotelLat, HotelLng, undefined),
    Req(HotelLat, HotelLng, 20000),
    Req(HotelLat, HotelLng, 0),
    Req(1, 1, 1000),
    Req(0, HotelLng, 1000),
    Req(undefined, undefined, 1000),
    Req(HotelLat, undefined, undefined) }

\* A curated recommendation as the store keeps it; distance is the stored
\* field, which the overlay recomputes per request.
Curated(id, lat, lng, rating, distance) ==
  [id |-> id, location |-> At(lat, lng), rating |-> rating,
   distance |-> distance, category |-> "recommend"]

CuratedSnapshots ==
  { <<>>,
    << Curated("rec_far", HotelLat + 450, HotelLng, 48, 150),
       Curated("rec_mid", HotelLat + 80, HotelLng, 46, 300),
       Curated("rec_near", HotelLat, HotelLng + 30, 0, 0) >> }

\* ------------------------------------------------------------------------
\* The manual recommendations overlay

WithDistance(rec, latitude, longitude) ==
  [id |-> rec.id, location |-> rec.location, rating |-> rec.rating,
   category |-> rec.category,
   distance |-> Round(calculateDistance(latitude, longitude,
                                        rec.location.latitude,
                                        rec.location.longitude))]

RECURSIVE WithinRadius(_, _)
WithinRadius(recs, radius) ==
  IF recs = <<>> THEN <<>>
  ELSE IF Head(recs).distance <= radius
       THEN <<Head(recs)>> \o WithinRadius(Tail(recs), radius)
       ELSE WithinRadius(Tail(recs), radius)

\* Variant of InsertByDistance that ranks like the provider categories.
RECURSIVE InsertByDistance_Ranked(_, _)
InsertByDistance_Ranked(sorted, rec) ==
  IF sorted = <<>> THEN <<rec>>
  ELSE IF ComparePlaces(sorted[Len(sorted)], rec) <= 0
       THEN Append(sorted, rec)
       ELSE Append(InsertByDistance_Ranked(SubSeq(sorted, 1, Len(sorted) - 1),
                                           rec),
                   sorted[Len(sorted)])

RECURSIVE InsertByDistance(_, _)
InsertByDistance(sorted, rec) ==
  IF sorted = <<>> THEN <<rec>>
  ELSE IF sorted[Len(sorted)].distance - rec.distance <= 0
       THEN Append(sorted, rec)
       ELSE Append(InsertByDistance(SubSeq(sorted, 1, Len(sorted) - 1), rec),
                   sorted[Len(sorted)])

RECURSIVE SortByDistance(_)
SortByDistance(recs) ==
  IF recs = <<>> THEN <<>>
  ELSE InsertByDistance(SortByDistance(SubSeq(recs, 1, Len(recs) - 1)),
                        recs[Len(recs)])

recommendationsWithDistance(recs, latitude, longitude, radius) ==
  SortByDistance(WithinRadius(
    [i \in 1..Len(recs) |-> WithDistance(recs[i], latitude, longitude)],
    radius))

\* ------------------------------------------------------------------------
\* State

VARIABLES
  manualRecommendations,   \* the in-memory curated list
  persisted,               \* the curated list in data/recommendations.json
  apiKeyConfigured,        \* GOOGLE_MAPS_API_KEY is set
  envResultsPerCategory,   \* process.env.RESULTS_PER_CATEGORY
  phase,                   \* "idle", "searching" or "responded"
  request,                 \* body of the request being handled
  focus,                   \* the category that has places around the centre
  searchRadius,
  results,                 \* category key -> list of places
  totalPlacesFound,
  category,                \* index in PLACE_TYPES of the running iteration
  allPlacesForCategory,
  pending,                 \* the provider call the handler awaits
  calls,                   \* provider calls issued since the running
                           \* iteration (or the connectivity test) began
  returned,                \* answers to the sub-queries of this iteration
  lastDone,                \* the iteration just completed and its answers
  response,                \* what res.status(..).json(..) sent
  pointA,                  \* lat1, lon1 of a calculateDistance call
  pointB,                  \* lat2, lon2 of a calculateDistance call
  measured,                \* what calculateDistance returned
  clock,                   \* Date.now(), in hours
  issued,                  \* the signed URLs the QR endpoints have returned
  access,                  \* the page request being answered and its outcome
  tokenUsage,              \* security.js: qrId -> uses
  blacklistedTokens,       \* security.js: the revoked tokens
  minted,                  \* the tokens generateSecureQRToken has returned
  accepted,                \* token -> how many verifications of it succeeded
  revoked,                 \* the tokens revokeQRToken returned true for
  useDatabase,             \* initDatabase() connected
  table,                   \* the rows of the recommendations table, in
                           \* the order of their added_date
  fileExists,              \* data/recommendations.json exists
  backups,                 \* the files of data/backups, oldest first
  stamp,                   \* how many backup files were written so far
  generated,               \* how many ids generateRecommendationId made
  ops,                     \* how many curated requests were answered
  lastOp,                  \* the curated request answered last
  pristine                 \* no curated request so far restored a backup
                           \* or had a database call that failed

\* The state of POST /api/search-nearby.
searchVars ==
  <<manualRecommendations, persisted, apiKeyConfigured,
    envResultsPerCategory, phase, request, focus, searchRadius, results,
    totalPlacesFound, category, allPlacesForCategory, pending, calls,
    returned, lastDone, response>>

\* The state of a caller of calculateDistance.
geoVars == <<pointA, pointB, measured>>

\* The state of the signed QR URLs.
qrVars == <<clock, issued, access>>

\* The state of security.js and of its callers.
tokenVars == <<tokenUsage, blacklistedTokens, minted, accepted, revoked>>

\* The state of the curated store and of its endpoints.
storeVars ==
  <<useDatabase, table, fileExists, backups, stamp, generated, ops, lastOp,
    pristine>>

\* What the curated endpoints leave alone of POST /api/search-nearby.
requestVars ==
  <<apiKeyConfigured, envResultsPerCategory, phase, request, focus,
    searchRadius, totalPlacesFound, category, allPlacesForCategory, pending,
    calls, returned, lastDone, response>>

vars == <<searchVars, geoVars, qrVars, tokenVars, storeVars>>

\* What no step of POST /api/search-nearby assigns.
untouched ==
  <<persisted, apiKeyConfigured, envResultsPerCategory, geoVars, qrVars,
    tokenVars, storeVars>>

\* parseInt(value) || fallback, for an environment variable that is unset or
\* holds a decimal integer.
ParseIntOr(value, fallback) ==
  IF value = undefined \/ value = 0 THEN fallback ELSE value

\* Math.min(parseInt(process.env.RESULTS_PER_CATEGORY) || 20, 20)
RESULTS_PER_CATEGORY == Min(ParseIntOr(envResultsPerCategory, 20), 20)

\* The centre of a provider call: { latitude, longitude } of the request.
Center(req) == [latitude |-> req.latitude, longitude |-> req.longitude]

NoCenter == [latitude |-> undefined, longitude |-> undefined]

NoCall == [api |-> "none", category |-> "none", sub |-> 0,
           center |-> NoCenter, radius |-> 0, maxResultCount |-> 0]

NoRequest == Req(undefined, undefined, undefined)

NoResponse == [status |-> 0, success |-> FALSE]

NoneDone == [category |-> "none", returned |-> <<>>]

\* The empty results object.
NoResults == [key \in {} |-> <<>>]

\* results[key] = list
SetResult(res, key, list) ==
  [k \in DOMAIN res \cup {key} |-> IF k = key THEN list ELSE res[k]]

\* The request of searchNearbyPlaces for the tag search of a category.
NearbyCall(cat, center, radius) ==
  [api |-> "searchNearby", category |-> cat, sub |-> 1, center |-> center,
   radius |-> Min(radius, MAX_SEARCH_RADIUS),
   maxResultCount |-> Min(Max(RESULTS_PER_CATEGORY, 1), 20)]

\* Variant of TextCall that sends the configured number as it was read.
TextCall_RawConfig(cat, sub, center, radius) ==
  [api |-> "searchText", category |-> cat, sub |-> sub, center |-> center,
   radius |-> Min(radius, MAX_SEARCH_RADIUS),
   maxResultCount |-> ParseIntOr(envResultsPerCategory, 20)]

\* The request of the sub-th sub-query of a category, a free-text search.
TextCall(cat, sub, center, radius) ==
  [api |-> "searchText", category |-> cat, sub |-> sub, center |-> center,
   radius |-> Min(radius, MAX_SEARCH_RADIUS),
   maxResultCount |-> Min(RESULTS_PER_CATEGORY, 20)]

\* The connectivity test the handler makes when nothing was found.
GeocodeCall ==
  [api |-> "geocode", category |-> "none", sub |-> 0, center |-> NoCenter,
   radius |-> 0, maxResultCount |-> 0]

NotMeasured == [there |-> -1, back |-> -1, self |-> -1]

\* No caller of calculateDistance outside the handler.
GeoIdle ==
  /\ pointA = At(0, 0)
  /\ pointB = At(0, 0)
  /\ measured = NotMeasured

\* A request without the query parameter.
NoSig == [digest |-> [url |-> <<>>, timestamp |-> -1], bytes |-> -1,
          junk |-> FALSE]

NoTs == -1

\* A request without qr_token.
NoToken == [qrId |-> 0, type |-> "none", exp |-> 0, genuine |-> FALSE]

NoAccess == [path |-> "none", token |-> NoToken, sig |-> NoSig, ts |-> NoTs,
             at |-> 0, outcome |-> "none"]

\* No token was generated.
TokenIdle ==
  /\ tokenUsage = [qrId \in {} |-> 0]
  /\ blacklistedTokens = {}
  /\ minted = {}
  /\ accepted = [token \in {} |-> 0]
  /\ revoked = {}

\* No curated request was answered.
NoOp == [op |-> "none", status |-> 0, id |-> "none", during |-> "none"]

\* The server runs on the file store, the file holds what a start-up wrote
\* and no backup was made.
StoreIdle ==
  /\ useDatabase = FALSE
  /\ table = <<>>
  /\ fileExists = TRUE
  /\ backups = <<>>
  /\ stamp = 0
  /\ generated = 0
  /\ ops = 0
  /\ lastOp = NoOp
  /\ pristine = TRUE

\* No QR URL was generated and no page is being requested.
QRIdle ==
  /\ clock = 0
  /\ issued = {}
  /\ access = NoAccess

Init ==
  /\ GeoIdle
  /\ QRIdle
  /\ TokenIdle
  /\ StoreIdle
  /\ manualRecommendations \in CuratedSnapshots
  /\ persisted = manualRecommendations
  /\ apiKeyConfigured \in BOOLEAN
  /\ envResultsPerCategory = undefined
  /\ phase = "idle"
  /\ request = NoRequest
  /\ focus = "none"
  /\ searchRadius = 0
  /\ results = NoResults
  /\ totalPlacesFound = 0
  /\ category = 0
  /\ allPlacesForCategory = <<>>
  /\ pending = NoCall
  /\ calls = <<>>
  /\ returned = <<>>
  /\ lastDone = NoneDone
  /\ response = NoResponse

\* Values of RESULTS_PER_CATEGORY in the environment of the server: unset,
\* "0", below the provider's maximum and above it.
EnvValues == {undefined, 0, 5, 50}

\* The server started with a key, no curated entry and any of the values
\* of RESULTS_PER_CATEGORY.
InitConfigured ==
  /\ GeoIdle
  /\ QRIdle
  /\ TokenIdle
  /\ StoreIdle
  /\ manualRecommendations = <<>>
  /\ persisted = <<>>
  /\ apiKeyConfigured = TRUE
  /\ envResultsPerCategory \in EnvValues
  /\ phase = "idle"
  /\ request = NoRequest
  /\ focus = "none"
  /\ searchRadius = 0
  /\ results = NoResults
  /\ totalPlacesFound = 0
  /\ category = 0
  /\ allPlacesForCategory = <<>>
  /\ pending = NoCall
  /\ calls = <<>>
  /\ returned = <<>>
  /\ lastDone = NoneDone
  /\ response = NoResponse

\* The server with a key and no curated entry, before any request.
SearchIdle ==
  /\ manualRecommendations = <<>>
  /\ persisted = <<>>
  /\ apiKeyConfigured = TRUE
  /\ envResultsPerCategory = undefined
  /\ phase = "idle"
  /\ request = NoRequest
  /\ focus = "none"
  /\ searchRadius = 0
  /\ results = NoResults
  /\ totalPlacesFound = 0
  /\ category = 0
  /\ allPlacesForCategory = <<>>
  /\ pending = NoCall
  /\ calls = <<>>
  /\ returned = <<>>
  /\ lastDone = NoneDone
  /\ response = NoResponse

\* ------------------------------------------------------------------------
\* calculateDistance on its own

\* Latitudes and longitudes (1e-4 degree) of the points measured: either
\* side of the equator and of the prime meridian, around the hotel, and at
\* 60 degrees north.
Latitudes == {-700, 0, 700, HotelLat, HotelLat + 1400, 600000}

Longitudes == {-700, 700, HotelLng, HotelLng + 1400}

Points == {At(lat, lng) : lat \in Latitudes, lng \in Longitudes}

InitDistance ==
  /\ SearchIdle
  /\ QRIdle
  /\ TokenIdle
  /\ StoreIdle
  /\ pointA \in Points
  /\ pointB \in Points
  /\ measured = NotMeasured

\* calculateDistance is called from A to B, from B to A and from A to A.
Measure ==
  /\ measured = NotMeasured
  /\ measured' =
       [there |-> calculateDistance(pointA.latitude, pointA.longitude,
                                    pointB.latitude, pointB.longitude),
        back  |-> calculateDistance(pointB.latitude, pointB.longitude,
                                    pointA.latitude, pointA.longitude),
        self  |-> calculateDistance(pointA.latitude, pointA.longitude,
                                    pointA.latitude, pointA.longitude)]
  /\ UNCHANGED <<searchVars, storeVars, pointA, pointB, qrVars, tokenVars>>

NextDistance == Measure

SpecDistance == InitDistance /\ [][NextDistance]_vars

\* ------------------------------------------------------------------------
\* Signed QR URLs

\* The values Date.now() takes, in hours.
Hours == {0, 24, 36}

\* const maxAge = 24 * 60 * 60 * 1000, in hours
maxAge == 24

\* `${req.protocol}://${req.get('host')}`
Origin == <<"https://", "hotel.example">>

\* crypto.createHmac('sha256', QR_SECRET_KEY).update(`${url}:${timestamp}`)
\* .digest(): the digest is named by the data it was computed from, two
\* data never giving the same digest.
Hmac(url, timestamp) == [url |-> url, timestamp |-> timestamp]

\* 32 bytes that are not the digest of any data under QR_SECRET_KEY.
Forged == [url |-> <<"forged">>, timestamp |-> -1]

\* The length of a SHA-256 digest, in bytes.
DigestBytes == 32

\* A value of the sig parameter: the hex digits of the first bytes of a
\* digest, followed (junk) or not by characters that are not hex digits.
Hex(digest, bytes, junk) == [digest |-> digest, bytes |-> bytes, junk |-> junk]

\* .digest('hex')
HexDigest(url, timestamp) == Hex(Hmac(url, timestamp), DigestBytes, FALSE)

\* generateQRSignature(url) at the time of the clock.
generateQRSignature(url, now) ==
  [signature |-> HexDigest(url, now), timestamp |-> now]

\* Buffer.from(text, 'hex'): the bytes of the leading hex digits.
BufferFromHex(text) ==
  [digest |-> IF text.bytes = 0 THEN NoSig.digest ELSE text.digest,
   bytes |-> text.bytes]

\* crypto.timingSafeEqual(a, b): a RangeError when the lengths differ.
timingSafeEqual(a, b) ==
  IF a.bytes # b.bytes THEN "throw"
  ELSE IF a = b THEN "true" ELSE "false"

\* verifyQRSignature(url, signature, timestamp) at the time now: "true",
\* "false", or "throw" when timingSafeEqual throws.
verifyQRSignature(url, signature, timestamp, now) ==
  IF now - timestamp > maxAge THEN "false"
  ELSE timingSafeEqual(BufferFromHex(signature),
                       BufferFromHex(HexDigest(url, timestamp)))

\* The middleware verifyQRAccess on a request for path: "next" when the
\* route handler is reached, 403 when the request is blocked.  Its catch
\* block calls next().
verifyQRAccess(path, sig, ts, now) ==
  IF sig = NoSig \/ ts = NoTs THEN "next"
  ELSE LET verdict == verifyQRSignature(Origin \o <<path>>, sig, ts, now)
       IN IF verdict = "false" THEN "403" ELSE "next"

\* POST /api/generate-qr with baseUrl the address of the /mobile page: the
\* URL returned carries sig and ts for baseUrl.
GenerateQR ==
  /\ access = NoAccess
  /\ ~\E u \in issued : u.by = "generate-qr"
  /\ issued' = issued \cup
       {[by |-> "generate-qr", url |-> Origin \o <<"/mobile">>,
         sig |-> generateQRSignature(Origin \o <<"/mobile">>, clock).signature,
         ts |-> generateQRSignature(Origin \o <<"/mobile">>, clock).timestamp]}
  /\ UNCHANGED <<searchVars, storeVars, geoVars, tokenVars, clock, access>>

\* The sig values a client can send: what the issued URLs carry, whole, cut
\* to one byte or followed by other characters, and values made up.
SigValues ==
  {Hex(u.sig.digest, bytes, junk) :
     u \in issued, bytes \in {1, DigestBytes}, junk \in BOOLEAN}
  \cup {Hex(Forged, bytes, FALSE) : bytes \in {0, 1, DigestBytes}}
  \cup {NoSig}

\* The ts values a client can send.
TsValues == {u.ts : u \in issued} \cup {clock, NoTs}

\* GET /mobile?sig=..&ts=.. passes through verifyQRAccess.
VisitMobile(sig, ts) ==
  /\ access = NoAccess
  /\ access' = [path |-> "/mobile", token |-> NoToken, sig |-> sig,
                ts |-> ts, at |-> clock,
                outcome |-> IF verifyQRAccess("/mobile", sig, ts, clock)
                               = "next"
                            THEN "handler" ELSE "403"]
  /\ UNCHANGED <<searchVars, storeVars, geoVars, tokenVars, clock, issued>>

\* The response was sent.
Served ==
  /\ access # NoAccess
  /\ access' = NoAccess
  /\ UNCHANGED <<searchVars, storeVars, geoVars, tokenVars, clock, issued>>

\* Time passes.
Advance ==
  /\ access = NoAccess
  /\ clock' \in {h \in Hours : h > clock}
  /\ UNCHANGED <<searchVars, storeVars, geoVars, tokenVars, issued, access>>

\* POST /api/generate-hotel-qr: the URL returned is the origin followed by
\* lat, lng, label and the sig and ts of generateQRSignature(baseUrl), with
\* baseUrl the origin without a path.
GenerateHotelQR ==
  /\ access = NoAccess
  /\ ~\E u \in issued : u.by = "generate-hotel-qr"
  /\ issued' = issued \cup
       {[by |-> "generate-hotel-qr", url |-> Origin,
         sig |-> generateQRSignature(Origin, clock).signature,
         ts |-> generateQRSignature(Origin, clock).timestamp]}
  /\ UNCHANGED <<searchVars, storeVars, geoVars, tokenVars, clock, access>>

\* ------------------------------------------------------------------------
\* security.js: QR tokens

\* const MAX_USES_PER_TOKEN = 100
MAX_USES_PER_TOKEN == 100

\* const TOKEN_EXPIRY = '24h', in hours
TOKEN_EXPIRY == 24

\* How many tokens the model generates.
MaxTokens == 2

\* How often the model verifies a token other than the first.
MaxScans == 1

\* jwt.verify(token, JWT_SECRET, { ignoreExpiration }): the signature, then
\* the expiry.
jwtVerify(token, now, ignoreExpiration) ==
  IF ~token.genuine THEN "JsonWebTokenError"
  ELSE IF ~ignoreExpiration /\ now >= token.exp THEN "TokenExpiredError"
  ELSE "ok"

\* Variant of verifyQRToken that lets a token at the limit through.
verifyQRToken_AtLimit(token, now) ==
  IF token \in blacklistedTokens THEN [valid |-> FALSE, usage |-> tokenUsage]
  ELSE IF jwtVerify(token, now, FALSE) # "ok"
  THEN [valid |-> FALSE, usage |-> tokenUsage]
  ELSE IF token.type # "qr_access"
  THEN [valid |-> FALSE, usage |-> tokenUsage]
  ELSE IF token.qrId \notin DOMAIN tokenUsage
  THEN [valid |-> FALSE, usage |-> tokenUsage]
  ELSE IF tokenUsage[token.qrId] > MAX_USES_PER_TOKEN
  THEN [valid |-> FALSE, usage |-> tokenUsage]
  ELSE [valid |-> TRUE,
        usage |-> [tokenUsage EXCEPT ![token.qrId] = @ + 1]]

\* verifyQRToken(token, req): whether the token is valid, and tokenUsage
\* after the call.
verifyQRToken(token, now) ==
  IF token \in blacklistedTokens THEN [valid |-> FALSE, usage |-> tokenUsage]
  ELSE IF jwtVerify(token, now, FALSE) # "ok"
  THEN [valid |-> FALSE, usage |-> tokenUsage]
  ELSE IF token.type # "qr_access"
  THEN [valid |-> FALSE, usage |-> tokenUsage]
  ELSE IF token.qrId \notin DOMAIN tokenUsage
  THEN [valid |-> FALSE, usage |-> tokenUsage]
  ELSE IF tokenUsage[token.qrId] >= MAX_USES_PER_TOKEN
  THEN [valid |-> FALSE, usage |-> tokenUsage]
  ELSE [valid |-> TRUE,
        usage |-> [tokenUsage EXCEPT ![token.qrId] = @ + 1]]

\* Variant of revokeQRToken that reports success and records nothing.
revokeQRToken_RecordsNothing(token) ==
  [returns |-> jwtVerify(token, 0, TRUE) = "ok",
   blacklist |-> blacklistedTokens, usage |-> tokenUsage]

\* revokeQRToken(token): what it returns, and blacklistedTokens and
\* tokenUsage after the call.
revokeQRToken(token) ==
  IF jwtVerify(token, 0, TRUE) # "ok"
  THEN [returns |-> FALSE, blacklist |-> blacklistedTokens,
        usage |-> tokenUsage]
  ELSE [returns |-> TRUE,
        blacklist |-> blacklistedTokens \cup {token},
        usage |-> [qrId \in DOMAIN tokenUsage \ {token.qrId} |->
                     tokenUsage[qrId]]]

\* POST /api/generate-secure-qr: generateSecureQRToken signs a token with a
\* fresh qrId and starts its usage record.
GenerateSecureQR ==
  /\ access = NoAccess
  /\ Cardinality(minted) < MaxTokens
  /\ LET token == [qrId |-> Cardinality(minted) + 1, type |-> "qr_access",
                   exp |-> clock + TOKEN_EXPIRY, genuine |-> TRUE]
     IN /\ minted' = minted \cup {token}
        /\ tokenUsage' = [qrId \in DOMAIN tokenUsage \cup {token.qrId} |->
                            IF qrId = token.qrId THEN 0 ELSE tokenUsage[qrId]]
        /\ accepted' = [t \in DOMAIN accepted \cup {token} |->
                          IF t = token THEN 0 ELSE accepted[t]]
  /\ UNCHANGED <<searchVars, storeVars,
                 geoVars, qrVars, blacklistedTokens, revoked>>

\* The tokens a client can send: those generated, and copies of them
\* signed with another key.
TokenValues ==
  minted \cup {[token EXCEPT !.genuine = FALSE] : token \in minted}

\* GET / passes through authenticateQRToken, which answers 401 without
\* qr_token and otherwise asks verifyQRToken.
VisitHome(token, sig, ts) ==
  /\ access = NoAccess
  /\ token \in minted => (token.qrId = 1 \/ accepted[token] < MaxScans)
  /\ LET verification == verifyQRToken(token, clock)
         valid == token # NoToken /\ verification.valid
     IN /\ access' = [path |-> "/", token |-> token, sig |-> sig, ts |-> ts,
                      at |-> clock,
                      outcome |-> IF valid THEN "handler" ELSE "401"]
        /\ tokenUsage' = IF token = NoToken THEN tokenUsage
                         ELSE verification.usage
        /\ accepted' = IF valid
                       THEN [accepted EXCEPT ![token] = @ + 1]
                       ELSE accepted
  /\ UNCHANGED <<searchVars, storeVars,
                 geoVars, clock, issued, blacklistedTokens,
                 minted, revoked>>

\* revokeQRToken(token) is called.
Revoke(token) ==
  /\ access = NoAccess
  /\ LET revocation == revokeQRToken(token)
     IN /\ blacklistedTokens' = revocation.blacklist
        /\ tokenUsage' = revocation.usage
        /\ revoked' = IF revocation.returns THEN revoked \cup {token}
                      ELSE revoked
  /\ UNCHANGED <<searchVars, storeVars, geoVars, qrVars, minted, accepted>>

\* cleanupExpiredTokens runs: for each qrId it signs a token that expires
\* in a second and verifies it at once; the usage record is deleted when
\* the second ends in between.
Cleanup(deleted) ==
  /\ access = NoAccess
  /\ deleted \subseteq DOMAIN tokenUsage
  /\ tokenUsage' = [qrId \in DOMAIN tokenUsage \ deleted |->
                      tokenUsage[qrId]]
  /\ UNCHANGED <<searchVars, storeVars,
                 geoVars, qrVars, blacklistedTokens, minted,
                 accepted, revoked>>

InitQR ==
  /\ SearchIdle
  /\ GeoIdle
  /\ QRIdle
  /\ TokenIdle
  /\ StoreIdle

NextQR ==
  \/ GenerateQR
  \/ GenerateHotelQR
  \/ \E sig \in SigValues, ts \in TsValues : VisitMobile(sig, ts)
  \/ \E u \in issued : VisitHome(NoToken, u.sig, u.ts)
  \/ Served
  \/ Advance

SpecQR == InitQR /\ [][NextQR]_vars

NextToken ==
  \/ GenerateSecureQR
  \/ \E token \in TokenValues \cup {NoToken} : VisitHome(token, NoSig, NoTs)
  \/ \E token \in TokenValues : Revoke(token)
  \/ \E deleted \in SUBSET DOMAIN tokenUsage : Cleanup(deleted)
  \/ Served
  \/ Advance

SpecToken == InitQR /\ [][NextToken]_vars

\* ------------------------------------------------------------------------
\* POST /api/search-nearby

\* res.status(status).json(...) before the category loop was entered.
Reject(status) ==
  /\ phase' = "responded"
  /\ response' = [status |-> status, success |-> FALSE]
  /\ searchRadius' = 0
  /\ results' = NoResults
  /\ category' = 0
  /\ pending' = NoCall
  /\ calls' = <<>>

\* An iteration of the category loop starts: the handler calls
\* searchNearbyPlaces, which posts the tag search and awaits the answer.
EnterCategory(i, center, radius) ==
  /\ phase' = "searching"
  /\ category' = i
  /\ allPlacesForCategory' = <<>>
  /\ returned' = <<>>
  /\ pending' = NearbyCall(PLACE_TYPES[i], center, radius)
  /\ calls' = <<NearbyCall(PLACE_TYPES[i], center, radius)>>
  /\ response' = NoResponse

\* The category loop is over: the connectivity test when nothing was found,
\* then res.json(responseData).
LeaveLoop(total) ==
  /\ category' = 0
  /\ allPlacesForCategory' = <<>>
  /\ returned' = <<>>
  /\ IF total = 0
     THEN /\ phase' = "searching"
          /\ pending' = GeocodeCall
          /\ calls' = <<GeocodeCall>>
          /\ response' = NoResponse
     ELSE /\ phase' = "responded"
          /\ pending' = NoCall
          /\ calls' = <<>>
          /\ response' = [status |-> 200, success |-> TRUE]

\* Variant of CategoryCatch that only logs the error.
CategoryCatch_LogOnly(res, cat) == res

\* The catch block of the category loop: results[category] = [].
CategoryCatch(res, cat) == SetResult(res, cat, <<>>)

\* The iteration of the running category ends, with the results object it
\* leaves and the number of places it added to totalPlacesFound.
EndCategory(newResults, found, answers) ==
  /\ results' = newResults
  /\ totalPlacesFound' = totalPlacesFound + found
  /\ lastDone' = [category |-> PLACE_TYPES[category], returned |-> answers]
  /\ UNCHANGED <<manualRecommendations, untouched, request, focus,
                 searchRadius>>
  /\ IF category < Len(PLACE_TYPES)
     THEN EnterCategory(category + 1, Center(request), searchRadius)
     ELSE LeaveLoop(totalPlacesFound + found)

\* Variant of ClampedRadius that passes the requested radius through.
ClampedRadius_Requested(radius) == radius

\* const searchRadius = Math.min(parseInt(radius), MAX_SEARCH_RADIUS)
ClampedRadius(radius) == Min(radius, MAX_SEARCH_RADIUS)

\* Variant of OverlayResults that sets results.recommend whatever the lists
\* hold.
OverlayResults_Always(stored, recs) == SetResult(NoResults, "recommend", recs)

\* The results object after the overlay: results.recommend is assigned only
\* when the in-memory list is not empty and some entry of it is in range.
OverlayResults(stored, recs) ==
  IF Len(stored) > 0 /\ Len(recs) > 0
  THEN SetResult(NoResults, "recommend", recs)
  ELSE NoResults

\* Variant of StoreAfterOverlay whose map callback assigns rec.distance on
\* the entry itself.
StoreAfterOverlay_InPlace(stored, latitude, longitude) ==
  [i \in 1..Len(stored) |-> WithDistance(stored[i], latitude, longitude)]

\* The in-memory list after the overlay ran over it: the map callback
\* spreads each entry into a new object, and filter and sort work on the
\* array that map returned, so the entries and their order stay as they were.
StoreAfterOverlay(stored, latitude, longitude) == stored

SearchNearby(req, rich) ==
  /\ phase = "idle"
  /\ request' = req
  /\ focus' = rich
  /\ totalPlacesFound' = 0
  /\ lastDone' = NoneDone
  /\ UNCHANGED untouched
  /\ LET radius == IF req.radius = undefined THEN DEFAULT_SEARCH_RADIUS
                   ELSE req.radius
     IN IF Falsy(req.latitude) \/ Falsy(req.longitude)
        THEN /\ Reject(400)
             /\ allPlacesForCategory' = <<>>
             /\ returned' = <<>>
             /\ UNCHANGED manualRecommendations
        ELSE IF ~apiKeyConfigured
        THEN /\ Reject(500)
             /\ allPlacesForCategory' = <<>>
             /\ returned' = <<>>
             /\ UNCHANGED manualRecommendations
        ELSE LET recs == recommendationsWithDistance(
                           manualRecommendations, req.latitude,
                           req.longitude, ClampedRadius(radius))
             IN /\ searchRadius' = ClampedRadius(radius)
                /\ results' = OverlayResults(manualRecommendations, recs)
                /\ manualRecommendations' =
                     StoreAfterOverlay(manualRecommendations, req.latitude,
                                       req.longitude)
                /\ EnterCategory(1, Center(req), ClampedRadius(radius))

\* Variant of NextSub that leaves out the sub-query that comes next.
NextSub_SkipOne(sub, resp) == sub + 2

\* Variant of NextSub that posts a failed sub-query again.
NextSub_RetryOnError(sub, resp) == IF resp.status = 200 THEN sub + 1 ELSE sub

\* The sub-query the handler goes on to when sub-query sub has settled: the
\* next try block of the branch, whatever the answer was.
NextSub(sub, resp) == sub + 1

\* searchNearbyPlaces settles.  On an error status it throws, which the catch
\* of the category loop turns into results[category] = []; otherwise the
\* records are pushed and the first free-text search is posted.
NearbyReturns(resp) ==
  /\ phase = "searching"
  /\ pending.api = "searchNearby"
  /\ IF resp.status # 200
     THEN EndCategory(CategoryCatch(results, PLACE_TYPES[category]), 0,
                      <<resp>>)
     ELSE /\ allPlacesForCategory' = TagPlaces(resp.places)
          /\ returned' = <<resp>>
          /\ pending' = TextCall(PLACE_TYPES[category], NextSub(1, resp),
                                  Center(request), searchRadius)
          /\ calls' = Append(calls,
                             TextCall(PLACE_TYPES[category], NextSub(1, resp),
                                      Center(request), searchRadius))
          /\ lastDone' = NoneDone
          /\ UNCHANGED <<manualRecommendations, untouched, phase,
                         request, focus, searchRadius, results,
                         totalPlacesFound, category, response>>

\* A free-text search settles.  Its catch swallows an error status; otherwise
\* the mapped and filtered records are pushed.  After the last sub-query of
\* the branch the handler normalizes, deduplicates and sorts the category.
TextReturns(resp) ==
  /\ phase = "searching"
  /\ pending.api = "searchText"
  /\ LET cat    == PLACE_TYPES[category]
         sub    == pending.sub
         pushed == IF resp.status = 200
                   THEN allPlacesForCategory
                        \o TextPlaces(resp.places,
                                      TextPlaceholders[cat][sub - 1],
                                      request.latitude, request.longitude,
                                      searchRadius, sub)
                   ELSE allPlacesForCategory
         list   == CategoryResult(pushed, request.latitude, request.longitude)
         next   == NextSub(sub, resp)
     IN IF next <= SubQueryCount(cat)
        THEN /\ allPlacesForCategory' = pushed
             /\ returned' = Append(returned, resp)
             /\ pending' = TextCall(cat, next, Center(request), searchRadius)
             /\ calls' = Append(calls, TextCall(cat, next, Center(request),
                                                searchRadius))
             /\ UNCHANGED <<manualRecommendations, untouched, phase,
                            request, focus, searchRadius, results,
                            totalPlacesFound, category, lastDone, response>>
        ELSE IF MapThrows(pushed)
        THEN EndCategory(CategoryCatch(results, cat), 0,
                         Append(returned, resp))
        ELSE EndCategory(SetResult(results, cat, list), Len(list),
                         Append(returned, resp))

\* The connectivity test settles, either way; the handler answers.
GeocodeReturns(ok) ==
  /\ phase = "searching"
  /\ pending.api = "geocode"
  /\ phase' = "responded"
  /\ pending' = NoCall
  /\ response' = [status |-> 200, success |-> TRUE]
  /\ calls' = <<>>
  /\ lastDone' = NoneDone
  /\ UNCHANGED <<manualRecommendations, untouched, request, focus,
                 searchRadius, results, totalPlacesFound, category,
                 allPlacesForCategory, returned>>

\* The response was sent and the locals of the invocation are gone; the
\* server is ready for the next request.
Complete ==
  /\ phase = "responded"
  /\ phase' = "idle"
  /\ request' = NoRequest
  /\ focus' = "none"
  /\ searchRadius' = 0
  /\ results' = NoResults
  /\ totalPlacesFound' = 0
  /\ calls' = <<>>
  /\ lastDone' = NoneDone
  /\ response' = NoResponse
  /\ UNCHANGED <<manualRecommendations, untouched, category,
                 allPlacesForCategory, pending, returned>>

\* The category of the running iteration.
CurrentCategory ==
  IF category \in 1..Len(PLACE_TYPES) THEN PLACE_TYPES[category] ELSE "none"

Next ==
  \/ \E req \in Requests, rich \in Categories : SearchNearby(req, rich)
  \/ \E resp \in TagResponses(CurrentCategory = focus) :
       NearbyReturns(resp)
  \/ \E resp \in TextResponses(CurrentCategory = focus) :
       TextReturns(resp)
  \/ \E ok \in BOOLEAN : GeocodeReturns(ok)
  \/ Complete

Spec == Init /\ [][Next]_vars

SpecConfigured == InitConfigured /\ [][Next]_vars

\* ------------------------------------------------------------------------
\* The curated store: the recommendations endpoints and the backups

\* Curated requests answered in a run.
MaxOps == 3

\* Backup files that earlier runs of the server left in data/backups.
LeftBackups == 9

\* Recommendations added in a run.
MaxAdds == 1

\* const filesToDelete = files.slice(10)
KeptBackups == 10

\* The ids generateRecommendationId returns: `rec_${uuidv4()}`, a new one
\* each time.
NewIds == <<"rec_1", "rec_2", "rec_3">>

generateRecommendationId(made) == NewIds[made + 1]

\* A request body of POST and PUT /api/recommendations: the fields it
\* carries, undefined when absent.
Body(latitude, longitude, rating) ==
  [latitude |-> latitude, longitude |-> longitude, rating |-> rating]

\* Math.max(0, Math.min(5, parseFloat(rating) || 0)), in tenths.
ClampRating(rating) ==
  Max(0, Min(50, IF rating = undefined THEN 0 ELSE rating))

\* lat < -90 || lat > 90 || lng < -180 || lng > 180 does not hold.
LatLngInRange(lat, lng) ==
  /\ lat >= -900000 /\ lat <= 900000
  /\ lng >= -1800000 /\ lng <= 1800000

\* POST /api/recommendations: const newRecommendation = {...}
newRecommendation(id, body) ==
  Curated(id, body.latitude, body.longitude, ClampRating(body.rating), 0)

\* PUT /api/recommendations/:id: the updates object applied to the entry.
\* A latitude or longitude is taken when it is within -180..180, a latitude
\* only within -90..90; the location is a copy of the entry's with the
\* coordinates written on it.
ApplyUpdates(rec, updateData) ==
  LET lat == updateData.latitude
      lng == updateData.longitude
      takeLat == lat # undefined /\ lat >= -900000 /\ lat <= 900000
      takeLng == lng # undefined /\ lng >= -1800000 /\ lng <= 1800000
  IN [rec EXCEPT
        !.location = At(IF takeLat THEN lat ELSE @.latitude,
                        IF takeLng THEN lng ELSE @.longitude),
        !.rating = IF updateData.rating = undefined THEN @
                   ELSE ClampRating(updateData.rating)]

\* Variant of OverlayCopyAfterPut for an overlay and a handler that share
\* the object: the handler's writes show on the copy.
OverlayCopyAfterPut_Shared(copy, updated) ==
  [copy EXCEPT !.location = updated.location, !.rating = updated.rating]

\* An object the overlay of a running search made out of the entry that PUT
\* updates, after the handler's writes.  The overlay spread the entry into
\* a new object, and the handler assigns a new location object to the entry
\* instead of writing on the one the two share, so the object is as it was.
OverlayCopyAfterPut(copy, updated) == copy

\* The results object of the running search after PUT updated the entry id.
ResultsAfterPut(res, id, updated) ==
  IF "recommend" \in DOMAIN res
  THEN LET recs == res["recommend"]
       IN SetResult(res, "recommend",
            [i \in 1..Len(recs) |->
               IF recs[i].id = id
               THEN OverlayCopyAfterPut(recs[i], updated)
               ELSE recs[i]])
  ELSE res

\* A row of the recommendations table.
Row(rec) ==
  [id |-> rec.id, latitude |-> rec.location.latitude,
   longitude |-> rec.location.longitude, rating |-> rec.rating,
   category |-> rec.category]

\* db.getAllRecommendations: the rows ORDER BY added_date DESC, each as an
\* entry; a row has no distance.
getAllRecommendations(rows) ==
  [i \in 1..Len(rows) |->
     LET row == rows[Len(rows) + 1 - i]
     IN [id |-> row.id, location |-> At(row.latitude, row.longitude),
         rating |-> row.rating, distance |-> undefined,
         category |-> row.category]]

\* db.addRecommendation: INSERT INTO recommendations
addRecommendation(rows, rec) == Append(rows, Row(rec))

\* db.deleteRecommendation: DELETE FROM recommendations WHERE id = $1
deleteRecommendation(rows, id) == SelectSeq(rows, LAMBDA row : row.id # id)

\* manualRecommendations.findIndex(rec => rec.id === id), 0 for -1.
findIndex(recs, id) ==
  IF \E i \in 1..Len(recs) : recs[i].id = id
  THEN CHOOSE i \in 1..Len(recs) :
         /\ recs[i].id = id
         /\ \A j \in 1..(i - 1) : recs[j].id # id
  ELSE 0

\* manualRecommendations.splice(recIndex, 1)
splice(recs, recIndex) ==
  [i \in 1..(Len(recs) - 1) |-> IF i < recIndex THEN recs[i] ELSE recs[i + 1]]

\* A file of data/backups: recommendations_backup_<timestamp>.json or
\* recommendations_backup_pre_restore_<timestamp>.json, with the time it was
\* written and the list it holds.
BackupFile(name, mtime, data) ==
  [name |-> name, mtime |-> mtime, data |-> data]

\* cleanupOldBackups: of the files whose name starts with
\* recommendations_backup_, all but the 10 of the latest mtime are unlinked.
cleanupOldBackups(files) ==
  SelectSeq(files, LAMBDA file :
    Cardinality({i \in 1..Len(files) : files[i].mtime > file.mtime})
      < KeptBackups)

\* saveRecommendations: the main file is copied into a new backup when it
\* exists, then written, then the old backups are cleaned up.
saveRecommendations(list, exists, file, files, written) ==
  [persisted |-> list,
   backups |-> cleanupOldBackups(
                 IF exists
                 THEN Append(files, BackupFile("backup", written + 1, file))
                 ELSE files),
   stamp |-> IF exists THEN written + 1 ELSE written]

\* A call of saveRecommendations() by a handler.
Save(list) ==
  LET saved == saveRecommendations(list, fileExists, persisted, backups,
                                   stamp)
  IN /\ persisted' = saved.persisted
     /\ fileExists' = TRUE
     /\ backups' = saved.backups
     /\ stamp' = saved.stamp

\* The handler of a curated request answers.
Answer(op, status, id) ==
  /\ lastOp' = [op |-> op, status |-> status, id |-> id, during |-> phase]
  /\ ops' = ops + 1

\* POST /api/recommendations with a name and an address.  inserted and read
\* tell whether the INSERT and the SELECT of the database mode succeed.
AddRecommendation(body, inserted, read) ==
  /\ ops < MaxOps
  /\ generated < MaxAdds
  /\ UNCHANGED <<requestVars, results, geoVars, qrVars, tokenVars,
                 useDatabase>>
  /\ IF \/ Falsy(body.latitude) \/ Falsy(body.longitude)
        \/ ~LatLngInRange(body.latitude, body.longitude)
     THEN /\ Answer("add", 400, "none")
          /\ UNCHANGED <<manualRecommendations, persisted, table,
                         fileExists, backups, stamp, generated, pristine>>
     ELSE LET rec == newRecommendation(generateRecommendationId(generated),
                                       body)
              rows == addRecommendation(table, rec)
          IN /\ generated' = generated + 1
             /\ IF useDatabase
                THEN /\ UNCHANGED <<persisted, fileExists, backups, stamp>>
                     /\ IF inserted
                        THEN /\ table' = rows
                             /\ manualRecommendations' =
                                  IF read THEN getAllRecommendations(rows)
                                  ELSE manualRecommendations
                             /\ pristine' = (pristine /\ read)
                             /\ Answer("add", 201, rec.id)
                        ELSE /\ UNCHANGED <<table, manualRecommendations>>
                             /\ pristine' = FALSE
                             /\ Answer("add", 500, rec.id)
                ELSE /\ manualRecommendations' =
                          Append(manualRecommendations, rec)
                     /\ Save(Append(manualRecommendations, rec))
                     /\ UNCHANGED <<table, pristine>>
                     /\ Answer("add", 201, rec.id)

\* PUT /api/recommendations/:id
UpdateRecommendation(id, updateData) ==
  LET recIndex == findIndex(manualRecommendations, id)
  IN /\ ops < MaxOps
     /\ UNCHANGED <<requestVars, geoVars, qrVars, tokenVars, useDatabase,
                    table, generated, pristine>>
     /\ IF recIndex = 0
        THEN /\ Answer("update", 404, id)
             /\ UNCHANGED <<manualRecommendations, persisted, results,
                            fileExists, backups, stamp>>
        ELSE LET updated == ApplyUpdates(manualRecommendations[recIndex],
                                         updateData)
                 list == [manualRecommendations EXCEPT ![recIndex] = updated]
             IN /\ manualRecommendations' = list
                /\ results' = ResultsAfterPut(results, id, updated)
                /\ Save(list)
                /\ Answer("update", 200, id)

\* DELETE /api/recommendations/:id.  deleted and read tell whether the
\* DELETE and the SELECT of the database mode succeed.
DeleteRecommendation(id, deleted, read) ==
  LET recIndex == findIndex(manualRecommendations, id)
      rows == deleteRecommendation(table, id)
  IN /\ ops < MaxOps
     /\ UNCHANGED <<requestVars, results, geoVars, qrVars, tokenVars,
                    useDatabase, generated>>
     /\ IF recIndex = 0
        THEN /\ Answer("delete", 404, id)
             /\ UNCHANGED <<manualRecommendations, persisted, table,
                            fileExists, backups, stamp, pristine>>
        ELSE IF useDatabase
        THEN /\ UNCHANGED <<persisted, fileExists, backups, stamp>>
             /\ IF deleted /\ rows # table
                THEN /\ table' = rows
                     /\ manualRecommendations' =
                          IF read THEN getAllRecommendations(rows)
                          ELSE manualRecommendations
                     /\ pristine' = (pristine /\ read)
                     /\ Answer("delete", 200, id)
                ELSE /\ UNCHANGED <<table, manualRecommendations>>
                     /\ pristine' = FALSE
                     /\ Answer("delete", 500, id)
        ELSE /\ manualRecommendations' = splice(manualRecommendations,
                                                recIndex)
             /\ Save(splice(manualRecommendations, recIndex))
             /\ UNCHANGED <<table, pristine>>
             /\ Answer("delete", 200, id)

\* POST /api/backups/restore/:backupId, for the file at position backupId
\* of the directory, or for a name that no file has (0).
RestoreBackup(backupId) ==
  /\ ops < MaxOps
  /\ UNCHANGED <<requestVars, results, geoVars, qrVars, tokenVars,
                 useDatabase, table, generated>>
  /\ IF backupId \notin 1..Len(backups)
     THEN /\ Answer("restore", 404, "none")
          /\ UNCHANGED <<manualRecommendations, persisted, fileExists,
                         backups, stamp, pristine>>
     ELSE /\ backups' =
               IF fileExists
               THEN Append(backups,
                           BackupFile("backup_pre_restore", stamp + 1,
                                      persisted))
               ELSE backups
          /\ stamp' = IF fileExists THEN stamp + 1 ELSE stamp
          /\ manualRecommendations' = backups[backupId].data
          /\ persisted' = backups[backupId].data
          /\ fileExists' = TRUE
          /\ pristine' = FALSE
          /\ Answer("restore", 200, "none")

\* The request part of the state before any request.
HandlerIdle ==
  /\ apiKeyConfigured = TRUE
  /\ envResultsPerCategory = undefined
  /\ phase = "idle"
  /\ request = NoRequest
  /\ focus = "none"
  /\ searchRadius = 0
  /\ results = NoResults
  /\ totalPlacesFound = 0
  /\ category = 0
  /\ allPlacesForCategory = <<>>
  /\ pending = NoCall
  /\ calls = <<>>
  /\ returned = <<>>
  /\ lastDone = NoneDone
  /\ response = NoResponse

\* The bodies of the add requests: a point near the hotel with a rating
\* above the scale, and a body without coordinates.
AddBodies ==
  { Body(HotelLat + 50, HotelLng, 70),
    Body(undefined, undefined, 46) }

\* The bodies of the update requests: a rating, a latitude, and a latitude
\* out of range.
UpdateBodies ==
  { Body(undefined, undefined, 30),
    Body(HotelLat + 200, undefined, undefined),
    Body(950000, undefined, undefined) }

\* The ids a request can name: those of the entries that exist or existed.
KnownIds ==
  {manualRecommendations[i].id : i \in 1..Len(manualRecommendations)}
    \cup {NewIds[i] : i \in 1..generated}

\* The entry of an earlier run, with the rating it had then.
LeftEntry(rating) == Curated("rec_mid", HotelLat + 80, HotelLng, rating, 300)

\* What earlier runs left in data/backups after they saved an entry and
\* then updated it again and again: the directory outlives the process.
LeftDirectory ==
  [i \in 1..LeftBackups |->
     BackupFile("backup", i, <<LeftEntry(IF i = 1 THEN 46 ELSE 30)>>)]

\* The server started on the file store: on an empty list and an empty
\* backups directory, or on the file and the directory of earlier runs.
InitFile ==
  /\ HandlerIdle
  /\ GeoIdle
  /\ QRIdle
  /\ TokenIdle
  /\ useDatabase = FALSE
  /\ table = <<>>
  /\ fileExists = TRUE
  /\ \/ /\ manualRecommendations = <<>>
        /\ backups = <<>>
        /\ stamp = 0
     \/ /\ manualRecommendations = <<LeftEntry(30)>>
        /\ backups = LeftDirectory
        /\ stamp = LeftBackups
  /\ persisted = manualRecommendations
  /\ generated = 0
  /\ ops = 0
  /\ lastOp = NoOp
  /\ pristine = TRUE

NextFile ==
  \/ \E body \in AddBodies : AddRecommendation(body, TRUE, TRUE)
  \/ \E id \in KnownIds, body \in UpdateBodies :
       UpdateRecommendation(id, body)
  \/ \E id \in KnownIds : DeleteRecommendation(id, TRUE, TRUE)
  \/ \E backupId \in 0..Len(backups) : RestoreBackup(backupId)

SpecFile == InitFile /\ [][NextFile]_vars

\* The rows of the entries of list, the first of the list added last.
Rows(list) == [i \in 1..Len(list) |-> Row(list[Len(list) + 1 - i])]

\* The server started on the database, with an empty table or a table of
\* three rows, and no file; it loaded its list from the table.
InitDatabase ==
  /\ HandlerIdle
  /\ GeoIdle
  /\ QRIdle
  /\ TokenIdle
  /\ useDatabase = TRUE
  /\ table \in {Rows(list) : list \in CuratedSnapshots}
  /\ manualRecommendations = getAllRecommendations(table)
  /\ persisted = <<>>
  /\ fileExists = FALSE
  /\ backups = <<>>
  /\ stamp = 0
  /\ generated = 0
  /\ ops = 0
  /\ lastOp = NoOp
  /\ pristine = TRUE

NextDatabase ==
  \/ \E body \in AddBodies, inserted \in BOOLEAN, read \in BOOLEAN :
       AddRecommendation(body, inserted, read)
  \/ \E id \in KnownIds, body \in UpdateBodies :
       UpdateRecommendation(id, body)
  \/ \E id \in KnownIds, deleted \in BOOLEAN, read \in BOOLEAN :
       DeleteRecommendation(id, deleted, read)

SpecDatabase == InitDatabase /\ [][NextDatabase]_vars

\* The server started with three curated entries, on the file store or on
\* the database.
InitBeside ==
  /\ HandlerIdle
  /\ GeoIdle
  /\ QRIdle
  /\ TokenIdle
  /\ useDatabase \in BOOLEAN
  /\ \E list \in CuratedSnapshots \ {<<>>} :
       /\ table = IF useDatabase THEN Rows(list) ELSE <<>>
       /\ manualRecommendations =
            IF useDatabase THEN getAllRecommendations(table) ELSE list
  /\ fileExists = ~useDatabase
  /\ persisted = IF useDatabase THEN <<>> ELSE manualRecommendations
  /\ backups = <<>>
  /\ stamp = 0
  /\ generated = 0
  /\ ops = 0
  /\ lastOp = NoOp
  /\ pristine = TRUE

\* The entry that the curated requests beside a search name, and the body
\* of their updates.
BesideIds == {"rec_mid"}

BesideBodies == {Body(HotelLat + 200, undefined, 30)}

\* A search around the hotel whose provider calls find nothing, beside the
\* curated requests.
NextBeside ==
  \/ SearchNearby(Req(HotelLat, HotelLng, 1000), "none")
  \/ \E resp \in TagResponses(FALSE) : NearbyReturns(resp)
  \/ \E resp \in TextResponses(FALSE) : TextReturns(resp)
  \/ \E ok \in BOOLEAN : GeocodeReturns(ok)
  \/ Complete
  \/ \E body \in AddBodies : AddRecommendation(body, TRUE, TRUE)
  \/ \E id \in BesideIds, body \in BesideBodies :
       UpdateRecommendation(id, body)
  \/ \E id \in BesideIds : DeleteRecommendation(id, TRUE, TRUE)
  \/ \E backupId \in 0..Len(backups) : RestoreBackup(backupId)

SpecBeside == InitBeside /\ [][NextBeside]_vars

\* ------------------------------------------------------------------------
\* Properties of the search-nearby result

\* The provider-sourced category keys present in results.
ProviderKeys == DOMAIN results \cap Categories

Ids(places) == {places[i].id : i \in 1..Len(places)}

\* The radius of the request, with the default of the handler.
RequestedRadius ==
  IF request.radius = undefined THEN DEFAULT_SEARCH_RADIUS ELSE request.radius

\* Coordinates inside the WGS-84 ranges.
CoordinatesInRange ==
  /\ request.latitude # undefined /\ request.longitude # undefined
  /\ Abs(request.latitude) <= 900000
  /\ Abs(request.longitude) <= 1800000

\* The handler went past its checks and entered the category loop.
Accepted == phase # "idle" /\ response.status \in {0, 200}

\* An iteration of the category loop has just ended.
JustDone == lastDone.category # "none"

\* C1: for valid coordinates and clamped radius R, every place of every
\* returned category list, provider-sourced or curated, has distance <= R,
\* whatever records the provider returned.
C1_AllWithinRadius ==
  (Accepted /\ CoordinatesInRange /\ RequestedRadius > 0) =>
    \A key \in DOMAIN results :
      \A i \in 1..Len(results[key]) : results[key][i].distance <= searchRadius

\* C2: no two places of a category list share an id.
C2_UniqueIds ==
  \A key \in ProviderKeys :
    \A i, j \in 1..Len(results[key]) :
      i # j => results[key][i].id # results[key][j].id

\* Two sub-queries of the iteration just ended returned the same id, and the
\* category list holds a place of that id.
C2_Witness ==
  /\ JustDone
  /\ \E k1, k2 \in 1..Len(lastDone.returned) :
       /\ k1 < k2
       /\ \E id \in Ids(lastDone.returned[k1].places)
                    \cap Ids(lastDone.returned[k2].places) :
            id \in Ids(results[lastDone.category])

\* C7: every provider-sourced category list is ordered by rating descending
\* and, among equal ratings, by distance ascending.
C7_Ranked ==
  \A key \in ProviderKeys :
    \A i \in 1..(Len(results[key]) - 1) :
      LET p == results[key][i]
          q == results[key][i + 1]
      IN \/ p.rating > q.rating
         \/ p.rating = q.rating /\ p.distance <= q.distance

\* A list of three places in which the sort moved records: the answer of the
\* tag search was not in rank order, two places tie on rating, one is
\* unrated.
C7_Witness ==
  /\ JustDone
  /\ LET list == results[lastDone.category]
     IN /\ Len(list) >= 3
        /\ list[1].rating = list[2].rating
        /\ list[1].distance < list[2].distance
        /\ list[Len(list)].rating = 0
        /\ Len(lastDone.returned[1].places) > 0
        /\ lastDone.returned[1].places[1].id = list[Len(list)].id

\* The answers of the iteration just ended that were successful.
OkAnswers == {k \in 1..Len(lastDone.returned) : lastDone.returned[k].status = 200}

FailedAnswers == (1..Len(lastDone.returned)) \ OkAnswers

\* The records of an answer.
Records(k) ==
  {lastDone.returned[k].places[j] : j \in 1..Len(lastDone.returned[k].places)}

\* The rounded distance of a raw record from the centre of the request.
DistanceOf(r) ==
  Round(calculateDistance(request.latitude, request.longitude,
                          r.location.latitude, r.location.longitude))

\* The four-tier name resolution yields a name for the record: a display
\* name, a plain name, an address segment that is not numeric-leading and
\* not the country or city token, or a recognized taxonomy tag.
Nameable(r) ==
  \/ Len(Trim(r.displayName)) > 0
  \/ Len(Trim(r.name)) > 0
  \/ \E i \in 1..Len(Split(r.formattedAddress)) :
       LET part == Trim(Split(r.formattedAddress)[i])
       IN /\ Len(part) > 0
          /\ ~StartsWithDigits(part)
          /\ part \notin {<<"Vietnam">>, <<"Hanoi">>}
  \/ \E i \in 1..Len(r.types) : r.types[i] \in DOMAIN typeMap

\* A record the category list is to show.
Usable(r) ==
  Nameable(r) /\ r.location.present /\ DistanceOf(r) <= searchRadius

\* C3: if a single sub-query of a category fails with a provider error, the
\* tag search included, it contributes nothing and the other sub-queries of
\* the category are still answered and their usable records are in the
\* category list.
C3_FailureIsolated ==
  (JustDone /\ Cardinality(FailedAnswers) = 1) =>
    /\ Len(lastDone.returned) = SubQueryCount(lastDone.category)
    /\ \A k \in OkAnswers :
         \A r \in Records(k) :
           Usable(r) => r.id \in Ids(results[lastDone.category])

\* C4: with coordinates the handler accepts and the API key configured, no
\* combination of provider failures makes the request fail: the response is
\* a success and results holds a list for every category.
C4_AlwaysCompletes ==
  (/\ phase = "responded"
   /\ ~Falsy(request.latitude) /\ ~Falsy(request.longitude)
   /\ apiKeyConfigured) =>
    /\ response.status = 200
    /\ response.success
    /\ Categories \subseteq DOMAIN results

\* The response is a success although a sub-query of the last category
\* failed.
C4_Witness ==
  /\ phase = "responded"
  /\ response.status = 200
  /\ JustDone
  /\ FailedAnswers # {}
  /\ Categories \subseteq DOMAIN results

\* C5: a request with missing or invalid coordinates, or with radius <= 0,
\* is rejected with a validation failure and no provider call is issued for
\* it at any point (on a server whose API key is configured).
C5_ValidationFirst ==
  (/\ phase # "idle"
   /\ apiKeyConfigured
   /\ \/ ~CoordinatesInRange
      \/ RequestedRadius <= 0) =>
    /\ calls = <<>>
    /\ pending = NoCall
    /\ response.status = 400

\* The placeholder names of the handler.
PlaceholderNames ==
  {UnknownPlace}
  \cup UNION {{TextPlaceholders[cat][i] : i \in 1..Len(TextPlaceholders[cat])} :
                cat \in Categories}

\* C6: no place of a provider-sourced category has an empty, blank or
\* placeholder name, and a raw record for which no tier yields a name is
\* absent from the category list.
C6_NoUnnamedPlace ==
  /\ \A key \in ProviderKeys :
       \A i \in 1..Len(results[key]) :
         /\ Len(Trim(results[key][i].name)) > 0
         /\ results[key][i].name \notin PlaceholderNames
  /\ JustDone =>
       \A k \in OkAnswers :
         \A r \in Records(k) :
           ~Nameable(r) => r.id \notin Ids(results[lastDone.category])

\* What the k-th sub-query of the category just ended pushes into
\* allPlacesForCategory for a record r of its answer: one element or none.
Pushed(k, r) ==
  IF k = 1 THEN TagPlaces(<<r>>)
  ELSE TextPlaces(<<r>>, TextPlaceholders[lastDone.category][k - 1],
                  request.latitude, request.longitude, searchRadius, k)

\* Record r of the k-th answer gives a place: it is pushed and named.
Yields(k, r) ==
  /\ Pushed(k, r) # <<>>
  /\ ExtractName(Pushed(k, r)[1]) # UnknownPlace

Built(k, r) ==
  NormalizedPlace(Pushed(k, r)[1], request.latitude, request.longitude)

\* C8: when several sub-queries of a category return records of the same id
\* that give a place, the place kept is the one built from the earliest of
\* these sub-queries in plan order; a later duplicate never replaces it.
C8_FirstOccurrenceWins ==
  JustDone =>
    \A i \in 1..Len(results[lastDone.category]) :
      LET p == results[lastDone.category][i]
      IN /\ p.sub \in OkAnswers
         /\ \E r \in Records(p.sub) :
              r.id = p.id /\ Yields(p.sub, r) /\ p = Built(p.sub, r)
         /\ \A k \in OkAnswers :
              k < p.sub => \A r \in Records(k) : r.id = p.id => ~Yields(k, r)

\* The tag search and a later text search both gave a place of one id, with
\* different data, and the list holds the one of the tag search.
C8_Witness ==
  /\ JustDone
  /\ \E i \in 1..Len(results[lastDone.category]) :
       LET p == results[lastDone.category][i]
       IN /\ p.sub = 1
          /\ \E k \in OkAnswers :
               /\ k > 1
               /\ \E r \in Records(k) :
                    r.id = p.id /\ Yields(k, r) /\ Built(k, r).rating # p.rating

\* C9: the ids of a category list are exactly the ids of the records of all
\* its sub-queries that are nameable, have coordinates and lie within the
\* radius.
C9_UnionOfUsable ==
  (JustDone /\ CoordinatesInRange /\ RequestedRadius > 0) =>
    Ids(results[lastDone.category])
      = UNION {{r.id : r \in {x \in Records(k) : Usable(x)}} : k \in OkAnswers}

\* The curated entries within the radius of the request, by id.
CuratedWithin ==
  {i \in 1..Len(manualRecommendations) :
     DistanceOf(manualRecommendations[i]) <= searchRadius}

\* C10: the curated category holds exactly the curated entries whose
\* computed distance is within the radius, ordered by distance ascending
\* whatever their rating, and no curated entry is in a provider-sourced list.
C10_CuratedOverlay ==
  Accepted =>
    /\ CuratedWithin # {} =>
         /\ "recommend" \in DOMAIN results
         /\ Len(results["recommend"]) = Cardinality(CuratedWithin)
         /\ Ids(results["recommend"])
              = {manualRecommendations[i].id : i \in CuratedWithin}
         /\ \A i \in 1..Len(results["recommend"]) :
              \E j \in CuratedWithin :
                /\ manualRecommendations[j].id = results["recommend"][i].id
                /\ results["recommend"][i].distance
                     = DistanceOf(manualRecommendations[j])
         /\ \A i \in 1..(Len(results["recommend"]) - 1) :
              results["recommend"][i].distance
                <= results["recommend"][i + 1].distance
    /\ CuratedWithin = {} => "recommend" \notin DOMAIN results
    /\ \A key \in ProviderKeys :
         Ids(results[key]) \cap Ids(manualRecommendations) = {}

\* Of three curated entries one is out of range; the two returned are in
\* distance order although the nearer one has the lower rating, next to a
\* provider-sourced list that is not empty.
C10_Witness ==
  /\ phase = "responded"
  /\ Len(manualRecommendations) = 3
  /\ "recommend" \in DOMAIN results
  /\ Len(results["recommend"]) = 2
  /\ results["recommend"][1].rating < results["recommend"][2].rating
  /\ results["recommend"][1].distance < results["recommend"][2].distance
  /\ \E key \in ProviderKeys : Len(results[key]) > 0

\* ------------------------------------------------------------------------
\* The curated store

\* C11: when the curated list is empty the results object has no
\* "recommend" key at all, not even an empty list, and the invocation still
\* answers 200 with a list for every provider category.
C11_EmptySnapshotNoKey ==
  (Accepted /\ manualRecommendations = <<>>) =>
    /\ "recommend" \notin DOMAIN results
    /\ phase = "responded" =>
         /\ response.status = 200 /\ response.success
         /\ Categories \subseteq DOMAIN results

\* An invocation over an empty curated list answered with provider places.
C11_Witness ==
  /\ phase = "responded" /\ response.status = 200
  /\ manualRecommendations = <<>>
  /\ \E cat \in Categories :
       cat \in DOMAIN results /\ Len(results[cat]) > 0

\* A step of a search-nearby invocation.
SearchNearbyStep ==
  \/ \E req \in Requests, rich \in Categories : SearchNearby(req, rich)
  \/ \E resp \in TagResponses(TRUE) \cup TagResponses(FALSE) :
       NearbyReturns(resp)
  \/ \E resp \in TextResponses(TRUE) \cup TextResponses(FALSE) :
       TextReturns(resp)
  \/ \E ok \in BOOLEAN : GeocodeReturns(ok)
  \/ Complete

\* C12: no step of a search-nearby invocation changes the in-memory curated
\* list, any field of its entries (the stored distance included) or their
\* order, and none writes the stored copy in the file or the database.
C12_StoreUntouched ==
  [][SearchNearbyStep =>
       /\ manualRecommendations' = manualRecommendations
       /\ persisted' = persisted
       /\ table' = table]_vars

\* The overlay answered a curated entry with a computed distance that
\* differs from the distance stored with the entry.
C12_Witness ==
  /\ phase = "responded" /\ response.status = 200
  /\ "recommend" \in DOMAIN results
  /\ \E i \in 1..Len(results["recommend"]),
        j \in 1..Len(manualRecommendations) :
       /\ results["recommend"][i].id = manualRecommendations[j].id
       /\ results["recommend"][i].distance # manualRecommendations[j].distance

\* ------------------------------------------------------------------------
\* Rate limits and retries

\* How many times sub-query k of the running iteration has been posted.
Attempts(k) ==
  Cardinality({i \in 1..Len(calls) :
                 calls[i].api # "geocode" /\ calls[i].sub = k})

\* C13: when the provider answers the first attempt of a sub-query with
\* 429 (rate limited), the handler posts that sub-query again, so that a
\* later successful attempt can contribute its records: no iteration ends on
\* the single rate-limited attempt of its tag search, and a rate-limited
\* free-text search is posted a second time.
C13_RetryAfterRateLimit ==
  /\ JustDone =>
       ~(Len(lastDone.returned) = 1 /\ lastDone.returned[1].status = 429)
  /\ (phase = "searching" /\ category # 0) =>
       \A k \in 1..Len(returned) :
         returned[k].status = 429 => Attempts(k) >= 2

\* C14: for any sequence of provider answers, no sub-query of an iteration
\* is posted more than 3 times, and when a free-text search has failed the
\* handler goes on with the records collected so far: those of the tag
\* search are still in allPlacesForCategory.
C14_AtMostThreeAttempts ==
  (phase = "searching" /\ category # 0) =>
    /\ \A k \in 1..SubQueryCount(PLACE_TYPES[category]) : Attempts(k) <= 3
    /\ \A k \in 2..Len(returned) :
         returned[k].status # 200 =>
           \A j \in 1..Len(returned[1].places) :
             returned[1].places[j].id \in Ids(allPlacesForCategory)

\* A free-text search failed after one attempt and the handler went on to
\* the next sub-query with the records of the tag search.
C14_Witness ==
  /\ phase = "searching" /\ category # 0
  /\ Len(returned) = 2
  /\ Len(returned[1].places) > 0
  /\ returned[2].status = 429
  /\ pending.api = "searchText" /\ pending.sub = 3
  /\ Attempts(2) = 1

\* ------------------------------------------------------------------------
\* Limits on what is sent to the provider

\* C15: whatever radius is requested, the radius of every provider call and
\* the radius the distance filters use (searchRadius) is at most
\* MAX_SEARCH_RADIUS, and is the requested radius when that is at most
\* MAX_SEARCH_RADIUS.
C15_RadiusClamped ==
  Accepted =>
    /\ searchRadius <= MAX_SEARCH_RADIUS
    /\ RequestedRadius <= MAX_SEARCH_RADIUS => searchRadius = RequestedRadius
    /\ \A i \in 1..Len(calls) :
         calls[i].api # "geocode" =>
           /\ calls[i].radius <= MAX_SEARCH_RADIUS
           /\ RequestedRadius <= MAX_SEARCH_RADIUS =>
                calls[i].radius = RequestedRadius

\* A request for more than the maximum whose free-text search was posted
\* with the maximum.
C15_Witness ==
  /\ Accepted
  /\ RequestedRadius > MAX_SEARCH_RADIUS
  /\ pending.api = "searchText"
  /\ pending.radius = MAX_SEARCH_RADIUS
  /\ searchRadius = MAX_SEARCH_RADIUS

\* C16: whatever RESULTS_PER_CATEGORY is configured, every call posted to
\* the provider, tag search or free-text search, carries a maxResultCount of
\* at most 20, and a configured value above 20 is sent as 20.
C16_MaxResultCountClamped ==
  \A i \in 1..Len(calls) :
    calls[i].api # "geocode" =>
      /\ calls[i].maxResultCount <= 20
      /\ ParseIntOr(envResultsPerCategory, 20) > 20 =>
           calls[i].maxResultCount = 20

\* With 50 configured, a free-text search was posted asking for 20.
C16_Witness ==
  /\ envResultsPerCategory = 50
  /\ pending.api = "searchText"
  /\ pending.maxResultCount = 20
  /\ \E i \in 1..Len(calls) :
       calls[i].api = "searchNearby" /\ calls[i].maxResultCount = 20

\* ------------------------------------------------------------------------
\* Records without coordinates, and name resolution

\* Some record answered in the iteration just ended has no coordinates.
SomeWithoutLocation ==
  \E k \in OkAnswers : \E r \in Records(k) : ~r.location.present

\* C17: when every sub-query of a category was answered, a record that has
\* no coordinates is not in the category list, whether it came from the tag
\* search or from a free-text search and wherever the centre is, and the
\* records answered with it that have a display name and coordinates
\* within the radius are in the list.
C17_NoCoordinatesOmitted ==
  (JustDone /\ FailedAnswers = {} /\ SomeWithoutLocation) =>
    \A k \in OkAnswers :
      \A r \in Records(k) :
        /\ ~r.location.present =>
             r.id \notin Ids(results[lastDone.category])
        /\ ( /\ r.location.present
             /\ Len(Trim(r.displayName)) > 0
             /\ DistanceOf(r) <= searchRadius ) =>
             r.id \in Ids(results[lastDone.category])

\* The record has neither a display name nor a plain name.
Unnamed(r) == Len(Trim(r.displayName)) = 0 /\ Len(Trim(r.name)) = 0

\* An address segment a name may be taken from: not empty, not
\* numeric-leading, and not the country or city token.
Acceptable(part) ==
  /\ Len(part) > 0
  /\ ~StartsWithDigits(part)
  /\ part \notin {<<"Vietnam">>, <<"Hanoi">>}

\* The indices of the acceptable segments of an address.
AcceptableParts(address) ==
  {i \in 1..Len(Split(address)) : Acceptable(Trim(Split(address)[i]))}

\* C18: name resolution falls through its tiers in order.  When every
\* sub-query was answered and every record has coordinates, a record of
\* the tag search that has no display name, no plain name and no
\* acceptable address segment, but has a recognized type and lies within
\* the radius, is in the category list under the label made from that type
\* and its coordinates.
C18_TypeLabelFallback ==
  (JustDone /\ FailedAnswers = {} /\ ~SomeWithoutLocation) =>
    \A r \in Records(1) :
      ( /\ Unnamed(r)
        /\ AcceptableParts(r.formattedAddress) = {}
        /\ \E i \in 1..Len(r.types) : r.types[i] \in DOMAIN typeMap
        /\ DistanceOf(r) <= searchRadius ) =>
        \E i \in 1..Len(results[lastDone.category]) :
          /\ results[lastDone.category][i].id = r.id
          /\ results[lastDone.category][i].name
               = FirstTypeName(r.types, r.location)

\* C19: a place of the category list whose record has no display name and
\* no plain name, and whose address has an acceptable segment, is named by
\* the first acceptable segment, whichever sub-query answered the record;
\* in particular its name does not start with a digit.
C19_AddressNameSkipsNumbers ==
  JustDone =>
    \A i \in 1..Len(results[lastDone.category]) :
      LET p == results[lastDone.category][i]
      IN \A r \in Records(p.sub) :
           ( /\ r.id = p.id
             /\ Unnamed(r)
             /\ AcceptableParts(r.formattedAddress) # {} ) =>
             LET parts == Split(r.formattedAddress)
                 first == CHOOSE n \in AcceptableParts(r.formattedAddress) :
                            \A m \in AcceptableParts(r.formattedAddress) :
                              n <= m
             IN /\ p.name = Trim(parts[first])
                /\ ~StartsWithDigits(p.name)

\* ------------------------------------------------------------------------
\* Stability of the ranking

\* Two places the comparator does not tell apart.
Tied(p, q) == p.rating = q.rating /\ p.distance = q.distance

\* C20: ranking a category list that is already ranked returns it as it
\* is, and of two places with equal rating and equal distance the one that
\* was inserted by the earlier sub-query comes first.
C20_StableRanking ==
  \A key \in ProviderKeys :
    /\ SortPlaces(results[key]) = results[key]
    /\ \A i, j \in 1..Len(results[key]) :
         (i < j /\ Tied(results[key][i], results[key][j])) =>
           results[key][i].sub <= results[key][j].sub

\* A category list with two tied places that came from different
\* sub-queries.
C20_Witness ==
  \E key \in ProviderKeys :
    \E i, j \in 1..Len(results[key]) :
      /\ i < j
      /\ Tied(results[key][i], results[key][j])
      /\ results[key][i].sub < results[key][j].sub

\* ------------------------------------------------------------------------
\* The returned place shape

\* C21: every place of a provider category has a rating and a rating count
\* that are numbers, 0 when the provider omitted them and the provider's
\* value otherwise, whatever optional fields the raw record has.
C21_RatingsDefaulted ==
  /\ \A key \in ProviderKeys :
       \A i \in 1..Len(results[key]) :
         /\ results[key][i].rating \notin {NoNumber, undefined}
         /\ results[key][i].rating >= 0
         /\ results[key][i].userRatingCount \notin {NoNumber, undefined}
         /\ results[key][i].userRatingCount >= 0
  /\ JustDone =>
       \A i \in 1..Len(results[lastDone.category]) :
         LET p == results[lastDone.category][i]
         IN \A r \in Records(p.sub) :
              r.id = p.id =>
                /\ p.rating = IF r.rating = NoNumber THEN 0 ELSE r.rating
                /\ p.userRatingCount =
                     IF r.userRatingCount = NoNumber THEN 0
                     ELSE r.userRatingCount

\* A category list holds a place whose record came without rating and
\* rating count, from the tag search and from a free-text search.
C21_Witness ==
  /\ JustDone
  /\ \A sub \in {1, 2} :
       \E i \in 1..Len(results[lastDone.category]) :
         LET p == results[lastDone.category][i]
         IN /\ p.sub = sub
            /\ p.rating = 0 /\ p.userRatingCount = 0
            /\ \E r \in Records(sub) :
                 /\ r.id = p.id
                 /\ r.rating = NoNumber /\ r.userRatingCount = NoNumber

\* ------------------------------------------------------------------------
\* Order of the sub-queries

\* C22: within a category the sub-queries are posted one after another in
\* the order of the branch, the tag search first and then the free-text
\* searches, each for the category of the iteration with the centre and the
\* radius of the request; a sub-query is posted only when every earlier one
\* of the category has been answered, so exactly one is in flight.
C22_SequentialPlanOrder ==
  (phase = "searching" /\ category # 0) =>
    /\ Len(calls) = Len(returned) + 1
    /\ Len(calls) <= SubQueryCount(PLACE_TYPES[category])
    /\ pending = calls[Len(calls)]
    /\ \A i \in 1..Len(calls) :
         /\ calls[i].sub = i
         /\ calls[i].api = IF i = 1 THEN "searchNearby" ELSE "searchText"
         /\ calls[i].category = PLACE_TYPES[category]
         /\ calls[i].center = Center(request)
         /\ calls[i].radius = searchRadius

\* The last free-text search of the restaurants branch is in flight after
\* the two sub-queries before it were answered.
C22_Witness ==
  /\ phase = "searching" /\ category # 0
  /\ PLACE_TYPES[category] = "restaurants"
  /\ Len(calls) = 3 /\ Len(returned) = 2
  /\ pending.api = "searchText" /\ pending.sub = 3
  /\ calls[1].center = Center(request)

\* ------------------------------------------------------------------------
\* Distance

\* C23: calculateDistance gives the same distance from A to B as from B to
\* A, and 0 from a point to itself, for every pair of points measured.
C23_DistanceSymmetric ==
  measured # NotMeasured =>
    /\ measured.there = measured.back
    /\ measured.self = 0

\* Two points that differ in latitude and in longitude were measured, at a
\* distance the haversine evaluates.
C23_Witness ==
  /\ measured # NotMeasured
  /\ pointA.latitude # pointB.latitude
  /\ pointA.longitude # pointB.longitude
  /\ measured.there > 0 /\ measured.there < FarAway
  /\ measured.there = measured.back

\* ------------------------------------------------------------------------
\* QR access

\* C24: a request for /mobile that carries sig and ts reaches the route
\* handler only if sig is the signature of the address of the page and ts,
\* and ts is at most 24 hours old; every other sig value, whatever its
\* length or form, is answered with 403.
C24_OnlyVerifiedSignaturesPass ==
  (access.path = "/mobile" /\ access.sig # NoSig /\ access.ts # NoTs) =>
    LET genuine == access.sig = HexDigest(Origin \o <<"/mobile">>, access.ts)
    IN /\ access.outcome = "handler" =>
            genuine /\ access.at - access.ts <= maxAge
       /\ ~genuine => access.outcome = "403"

C26_UseLimit ==
  /\ \A qrId \in DOMAIN tokenUsage : tokenUsage[qrId] <= MAX_USES_PER_TOKEN
  /\ \A token \in minted :
       /\ accepted[token] <= MAX_USES_PER_TOKEN
       /\ token.qrId \in DOMAIN tokenUsage =>
            tokenUsage[token.qrId] = accepted[token]

\* A token was verified MAX_USES_PER_TOKEN times and its next verification
\* was refused.
C26_Witness ==
  /\ access.path = "/" /\ access.outcome = "401"
  /\ access.token \in minted
  /\ access.token \notin blacklistedTokens
  /\ access.token.qrId \in DOMAIN tokenUsage
  /\ tokenUsage[access.token.qrId] = MAX_USES_PER_TOKEN
  /\ accepted[access.token] = MAX_USES_PER_TOKEN

\* C27: once revokeQRToken returned true for a token, no call of
\* verifyQRToken finds it valid and no request with it passes
\* authenticateQRToken, whatever was generated, verified or cleaned up in
\* between.
C27_RevokedStaysRejected ==
  /\ \A token \in revoked : ~verifyQRToken(token, clock).valid
  /\ (access.path = "/" /\ access.token \in revoked) =>
       access.outcome = "401"

\* A token that had been accepted was revoked and then refused, while
\* another token is still in use.
C27_Witness ==
  /\ access.path = "/" /\ access.outcome = "401"
  /\ access.token \in revoked
  /\ accepted[access.token] > 0
  /\ access.at < access.token.exp
  /\ \E other \in minted \ revoked :
       other.qrId \in DOMAIN tokenUsage /\ tokenUsage[other.qrId] > 0


\* ------------------------------------------------------------------------
\* The curated store and the search

\* The curated category of a results object, empty when it has none.
CuratedOf(res) ==
  IF "recommend" \in DOMAIN res THEN res["recommend"] ELSE <<>>

\* C28: in database mode, when every curated request so far was an add, an
\* update or a delete whose database calls succeeded, the in-memory curated
\* list is the list that the table holds, so that an update is still there
\* after a later add or delete.
C28_MemoryEqualsDatabase ==
  (useDatabase /\ pristine) =>
     manualRecommendations = getAllRecommendations(table)

\* C29: the curated category of a search-nearby invocation is the overlay
\* of the curated list as it was when the invocation began, before its first
\* provider call; no step taken while the invocation awaits the provider,
\* a curated add, update, delete or restore included, changes it, and the
\* response sends it.
C29_CuratedSnapshot ==
  [][/\ (phase = "idle" /\ phase' = "searching") =>
          CuratedOf(results') =
            recommendationsWithDistance(manualRecommendations,
                                        request'.latitude,
                                        request'.longitude, searchRadius')
     /\ (phase = "searching" /\ phase' = "searching") =>
          CuratedOf(results') = CuratedOf(results)
     /\ (phase = "searching" /\ phase' = "responded"
           /\ response'.status = 200) =>
          CuratedOf(results') = CuratedOf(results)]_vars

\* A response whose curated category shows an entry as it was before the
\* update that was answered while the search awaited the provider.
C29_Witness ==
  /\ phase = "responded" /\ response.status = 200
  /\ lastOp.op = "update" /\ lastOp.status = 200
  /\ lastOp.during = "searching"
  /\ \E i \in 1..Len(CuratedOf(results)),
        j \in 1..Len(manualRecommendations) :
       /\ CuratedOf(results)[i].id = lastOp.id
       /\ manualRecommendations[j].id = lastOp.id
       /\ CuratedOf(results)[i].rating # manualRecommendations[j].rating
       /\ CuratedOf(results)[i].location # manualRecommendations[j].location

\* C30: in file mode, once a curated add, update, delete or restore was
\* answered, the backups directory holds at most 10 backup files, and they
\* are the ones written last.
C30_TenLatestBackups ==
  (~useDatabase /\ lastOp.op # "none") =>
     /\ Len(backups) <= KeptBackups
     /\ {backups[i].mtime : i \in 1..Len(backups)}
          = {t \in 1..stamp : t > stamp - KeptBackups}

============================================================================
